---------------------------- MODULE Spec2Model ----------------------------
(***************************************************************************)
(* Construction plot (src/construction_plot.py, src/build_area.py) and     *)
(* settlement (src/src/simulation/settlement.py) of tsukuba-gdmc-2023.     *)
(*                                                                         *)
(* Coordinates are triples <<x, y, z>>.  A score is a record [h, d2]       *)
(* standing for the real number  h + 0.1 * sqrt(d2) : h is the summed      *)
(* height difference and d2 the squared planar distance to the centre.     *)
(* Scores are compared exactly (ScoreLess), without rounding.              *)
(***************************************************************************)
EXTENDS Integers, Sequences, FiniteSets, TLC

VARIABLES
    start,              \* Plot.start as <<x, z>>               (build_area.py:25)
    size,               \* Plot.size as <<width, depth>>        (build_area.py:26)
    heightmap,          \* world heightmap of the plot, [rx, rz] -> h
    water,              \* cells <<rx, rz>> whose block at (x, h-1, z) is water
    occupied_coords,    \* ConstructionPlot.occupied_coords     (construction_plot.py:21)
    foundation_blocks,  \* keys of ConstructionPlot.foundation_blocks, insertion order
    placed,             \* buildings built at a returned spot: [origin, size, padding]
    chronology,         \* Settlement.chronology                (settlement.py:29)
    buildings,          \* Settlement.__buildings: name -> indexes into chronology
    counter,            \* Settlement.__counter: name -> built count
    inhabitants,        \* Settlement.inhabitants: villagers [birth, house, work_place]
    food_available,     \* Settlement.food_available
    year,               \* the year the driver passes to the next update
    last,               \* the last call made: its arguments and its outcome
    world,              \* Plot._world: the snapshot of the blocks, coordinates -> name
    unwanted_blocks,    \* remove_trees: the worklist, a set of blocks
    deleted_blocks,     \* remove_trees: the coordinates already replaced by air
    buffer,             \* the blocks placed and not yet sent: coordinates -> name
    pops,             \* how often remove_trees popped a block of the coordinates
    phase               \* where remove_trees stands: "idle", "loop" or "done"

vars == <<start, size, heightmap, water, occupied_coords, foundation_blocks, placed,
          chronology, buildings, counter, inhabitants, food_available, year, last,
          world, unwanted_blocks, deleted_blocks, buffer, pops, phase>>

plotVars == <<start, size, heightmap, water>>
settlementVars == <<chronology, buildings, counter, inhabitants, food_available, year>>
treeVars == <<world, unwanted_blocks, deleted_blocks, buffer, pops, phase>>

-----------------------------------------------------------------------------
(* Bounds of the model *)

MaxWidth == 2       \* plots are 1..MaxWidth wide
MaxDepth == 2       \* plots are 1..MaxDepth deep
MaxStart == 1       \* a plot starts at (s, s), 0 <= s <= MaxStart
MaxHeight == 3      \* heightmap values are 1..MaxHeight
SeaLevel == 1       \* the heightmap value of every water column
ConstructionRoof == 2   \* the construction_roof of the modelled plot
MaxFootprint == 2   \* requested footprints are 1..MaxFootprint in each direction
MaxPadding == 1     \* paddings are 0..MaxPadding
MaxSpeed == 2       \* strides are 1..MaxSpeed
MaxPlaced == 2      \* at most MaxPlaced buildings are placed on a plot

(* ConstructionPlot._WORST_SCORE *)
_WORST_SCORE == 100000000

\* no coordinates (a call that raised returns none)
NoSpot == <<>>

-----------------------------------------------------------------------------
(* Coordinates (utils.Coordinates) *)

X(c) == c[1]
Y(c) == c[2]
Z(c) == c[3]

shift(c, dx, dy, dz) == <<c[1] + dx, c[2] + dy, c[3] + dz>>

with_y(c, y) == <<c[1], y, c[3]>>

Abs(n) == IF n < 0 THEN -n ELSE n

\* squared planar distance: Coordinates.distance is its square root
distance2(a, b) == (a[1] - b[1]) * (a[1] - b[1]) + (a[3] - b[3]) * (a[3] - b[3])

-----------------------------------------------------------------------------
(* Plot (src/build_area.py) *)

\* Plot.end, as <<x, z>>
PlotEnd == <<start[1] + size[1], start[2] + size[2]>>

\* Plot.center
center == <<start[1] + (size[1] \div 2), start[2] + (size[2] \div 2)>>

\* `coordinates in plot`: the column lies inside the plot bound
InPlot(c) ==
    /\ start[1] <= c[1] /\ c[1] < PlotEnd[1]
    /\ start[2] <= c[3] /\ c[3] < PlotEnd[2]

Cells(sz) == (0 .. sz[1] - 1) \X (0 .. sz[2] - 1)

\* Plot.get_block_at(x, y, z).is_one_of(["water"]) for the surface block of a column
IsWater(c) == <<c[1] - start[1], c[3] - start[2]>> \in water


\* the world heightmap "MOTION_BLOCKING_NO_LEAVES" of the plot: size[1] rows of size[2]
get_heightmap == heightmap

-----------------------------------------------------------------------------
(* ConstructionPlot (src/construction_plot.py) *)

\* the coordinates _build_foundation_blocks visits at step i of its two loops
SurfaceCoord(i) ==
    LET x == i \div size[2]
        z == i % size[2]
    IN  <<start[1] + x, get_heightmap[<<x, z>>] - 1, start[2] + z>>

\* whether _build_foundation_blocks keeps the visited coordinates
IsFoundation(c, occ) ==
    /\ c \notin occ
    /\ ~IsWater(c)
    /\ Y(c) < ConstructionRoof

RECURSIVE FoundationFrom(_, _)
FoundationFrom(i, occ) ==
    IF i >= size[1] * size[2] THEN <<>>
    ELSE LET c == SurfaceCoord(i)
         IN  (IF IsFoundation(c, occ) THEN <<c>> ELSE <<>>) \o FoundationFrom(i + 1, occ)

\* the keys of the dict _build_foundation_blocks leaves in foundation_blocks
_build_foundation_blocks(occ) == FoundationFrom(0, occ)

\* numpy indexing of one axis of length n: negative indexes count from the end,
\* anything else outside 0..n-1 raises IndexError (ok = FALSE)
NumpyIndex(i, n) ==
    IF 0 <= i /\ i < n THEN [ok |-> TRUE, i |-> i]
    ELSE IF -n <= i /\ i < 0 THEN [ok |-> TRUE, i |-> i + n]
    ELSE [ok |-> FALSE, i |-> 0]

\* _get_y(x, z): the heightmap value, or ok = FALSE when the lookup raises IndexError
_get_y(x, z) ==
    LET relative_x == NumpyIndex(x - start[1], size[1])
        relative_z == NumpyIndex(z - start[2], size[2])
    IN  IF relative_x.ok /\ relative_z.ok
        THEN [ok |-> TRUE, y |-> heightmap[<<relative_x.i, relative_z.i>>]]
        ELSE [ok |-> FALSE, y |-> 0]

WorstScore == [raised |-> FALSE, h |-> _WORST_SCORE, d2 |-> 0]
Raised == [raised |-> TRUE, h |-> 0, d2 |-> 0]

\* the footprint cell the loops of _get_score visit at step i
ScoreCell(coord, sz, i) == shift(coord, i \div sz[2], 0, i % sz[2])

\* the loops of _get_score from step i on, acc being the summed height difference
RECURSIVE ScoreFrom(_, _, _, _)
ScoreFrom(coord, sz, i, acc) ==
    IF sz[1] <= 0 \/ sz[2] <= 0 \/ i >= sz[1] * sz[2]
    THEN [raised |-> FALSE, h |-> acc, d2 |-> distance2(with_y(coord, 0), <<center[1], 0, center[2]>>)]
    ELSE LET current == ScoreCell(coord, sz, i)
         IN  IF ~InPlot(current) THEN WorstScore
             ELSE LET y == _get_y(X(current), Y(current))
                  IN  IF ~y.ok THEN Raised
                      ELSE ScoreFrom(coord, sz, i + 1, acc + Abs(Y(coord) - y.y))

\* _get_score(coord, size): a score, or Raised when an IndexError escapes
_get_score(coord, sz) == ScoreFrom(coord, sz, 0, 0)

\* a < b for the reals a.h + 0.1 * sqrt(a.d2) and b.h + 0.1 * sqrt(b.d2)
ScoreLess(a, b) ==
    LET k == 10 * (b.h - a.h)       \* sqrt(a.d2) < k + sqrt(b.d2) ?
    IN  IF k >= 0
        THEN IF a.d2 <= b.d2 THEN k > 0 \/ a.d2 < b.d2
             ELSE IF k > a.d2 THEN TRUE
             ELSE LET m == a.d2 - b.d2 - k * k
                  IN  m < 0 \/ m * m < 4 * k * k * b.d2
        ELSE IF a.d2 >= b.d2 THEN FALSE
             ELSE IF -k > b.d2 THEN FALSE
             ELSE LET m == b.d2 - a.d2 - k * k
                  IN  m > 0 /\ m * m > 4 * k * k * a.d2

\* keys_list[::speed]
Strided(keys, speed) ==
    [j \in 1 .. ((Len(keys) + speed - 1) \div speed) |-> keys[(j - 1) * speed + 1]]

\* the minimum loop of get_construction_spot over visited[i..], from (best_spot, min_score)
RECURSIVE MinLoop(_, _, _, _, _)
MinLoop(visited, sz, i, best_spot, min_score) ==
    IF i > Len(visited) THEN [outcome |-> "return", spot |-> best_spot, score |-> min_score]
    ELSE LET coord_score == _get_score(visited[i], sz)
         IN  IF coord_score.raised
             THEN [outcome |-> "IndexError", spot |-> NoSpot, score |-> min_score]
             ELSE IF ScoreLess(coord_score, min_score)
                  THEN MinLoop(visited, sz, i + 1, visited[i], coord_score)
                  ELSE MinLoop(visited, sz, i + 1, best_spot, min_score)

\* get_construction_spot replacing best_spot on `<=`: the last visited candidate of
\* the minimum score wins
BestSpot_last_minimum(keys_list, sz, speed) ==
    LET visited == Strided(keys_list, speed)
        lowest == {i \in 1 .. Len(visited) :
                    \A j \in 1 .. Len(visited) :
                        ~ScoreLess(_get_score(visited[j], sz), _get_score(visited[i], sz))}
        i == CHOOSE i \in lowest : \A k \in lowest : k <= i
    IN  IF keys_list = <<>> \/ \E j \in 1 .. Len(visited) : _get_score(visited[j], sz).raised
        THEN [outcome |-> "IndexError", spot |-> NoSpot, score |-> WorstScore]
        ELSE [outcome |-> "return", spot |-> visited[i], score |-> _get_score(visited[i], sz)]

\* get_construction_spot(size, speed) over the rebuilt pool keys_list
BestSpot(keys_list, sz, speed) ==
    IF keys_list = <<>>
    THEN [outcome |-> "IndexError", spot |-> NoSpot, score |-> WorstScore]   \* keys_list[0]
    ELSE MinLoop(Strided(keys_list, speed), sz, 1, keys_list[1], WorstScore)

\* the coordinates occupy_area adds to occupied_coords
OccupyAreaCoords(origin, sz, padding) ==
    { with_y(shift(origin, sz[1] + x, 0, sz[2] + z), 0) :
        x \in (-padding) .. (sz[1] + padding - 1), z \in (-padding) .. (sz[2] + padding - 1) }

-----------------------------------------------------------------------------
(* Placement search and occupancy of the city plot (src.plots.plot.CityPlot),    *)
(* as sections 4.2 to 4.4 of the specification describe them                     *)

\* 4.3: the height of a column of the plot
height_at(c) == heightmap[<<c[1] - start[1], c[3] - start[2]>>]

\* 4.3: score(origin, size); the sentinel if a footprint cell lies outside the plot
RECURSIVE SpecScoreFrom(_, _, _, _)
SpecScoreFrom(origin, sz, i, acc) ==
    IF sz[1] <= 0 \/ sz[2] <= 0 \/ i >= sz[1] * sz[2]
    THEN [raised |-> FALSE, h |-> acc, d2 |-> distance2(with_y(origin, 0), <<center[1], 0, center[2]>>)]
    ELSE LET cell == ScoreCell(origin, sz, i)
         IN  IF ~InPlot(cell) THEN WorstScore
             ELSE SpecScoreFrom(origin, sz, i + 1, acc + Abs(height_at(origin) - height_at(cell)))

score(origin, sz) == SpecScoreFrom(origin, sz, 0, 0)

\* 4.4 step 1: the candidate pool, keyed by column at (height - 1)
RECURSIVE CandidatesFrom(_, _)
CandidatesFrom(i, occ) ==
    IF i >= size[1] * size[2] THEN <<>>
    ELSE LET c == SurfaceCoord(i)
         IN  (IF with_y(c, 0) \notin occ /\ ~IsWater(c) /\ Y(c) < ConstructionRoof
              THEN <<c>> ELSE <<>>) \o CandidatesFrom(i + 1, occ)

\* 4.4 step 2: the first candidate of least score among visited[i..]
RECURSIVE SpecMinLoop(_, _, _, _, _)
SpecMinLoop(visited, sz, i, best_spot, min_score) ==
    IF i > Len(visited) THEN [spot |-> best_spot, score |-> min_score]
    ELSE IF ScoreLess(score(visited[i], sz), min_score)
         THEN SpecMinLoop(visited, sz, i + 1, visited[i], score(visited[i], sz))
         ELSE SpecMinLoop(visited, sz, i + 1, best_spot, min_score)

\* whether a score exceeds max_score
Exceeds(sc, max_score) == ScoreLess([raised |-> FALSE, h |-> max_score, d2 |-> 0], sc)

\* 4.4: find_spot(size, stride, max_score); found = FALSE stands for NoSuitableSpot
find_spot(sz, stride, max_score, occ) ==
    LET pool == CandidatesFrom(0, occ)
    IN  IF pool = <<>> THEN [found |-> FALSE, spot |-> NoSpot, score |-> WorstScore]
        ELSE LET m == SpecMinLoop(Strided(pool, stride), sz, 1, pool[1], score(pool[1], sz))
             IN  IF max_score.given /\ Exceeds(m.score, max_score.value)
                 THEN [found |-> FALSE, spot |-> NoSpot, score |-> m.score]
                 ELSE [found |-> TRUE, spot |-> m.spot, score |-> m.score]

\* 4.2: the coordinates occupy(origin, size, padding) marks
occupy(origin, sz, padding) ==
    { <<x, 0, z>> : x \in (X(origin) - padding) .. (X(origin) + sz[1] + padding - 1),
                    z \in (Z(origin) - padding) .. (Z(origin) + sz[2] + padding - 1) }

-----------------------------------------------------------------------------
(* Buildings and villagers (src.simulation.buildings.building, src.simulation.villager, *)
(* src.env.BUILDINGS), as sections 3 and 4.5 of the specification describe them         *)

\* the catalog: name -> declared data
BUILDINGS ==
    [ House |-> [type |-> "HABITATION", cost |-> 0, maximum |-> 2, number_of_beds |-> 6,
                 workers |-> 0, food_production |-> 0, is_extension |-> FALSE,
                 size |-> <<1, 1>>, padding |-> 0],
      Farm  |-> [type |-> "FARM", cost |-> 0, number_of_beds |-> 0,
                 workers |-> 2, food_production |-> 4, is_extension |-> FALSE,
                 size |-> <<1, 2>>, padding |-> 1],
      Statue |-> [type |-> "DECORATION", cost |-> 1, maximum |-> 1, number_of_beds |-> 0,
                 workers |-> 0, food_production |-> 0, is_extension |-> TRUE,
                 size |-> <<2, 2>>, padding |-> 0] ]

Names == DOMAIN BUILDINGS

\* the names in the order of env.BUILDINGS.items()
CatalogOrder == <<"House", "Farm", "Statue">>

\* data.get(key, default)
data_get(data, key, default) == IF key \in DOMAIN data THEN data[key] ELSE default

properties(building) == BUILDINGS[building.name]

\* Building.deserialize(name, data): a building nobody lives or works in
Building(name) == [name |-> name, inhabitants |-> <<>>, workers |-> <<>>]

has_empty_beds(building) == Len(building.inhabitants) < properties(building).number_of_beds

can_offer_work(building) == Len(building.workers) < properties(building).workers

\* Villager(birth_year): no house, no work place (0 stands for None, else an index
\* into the chronology)
Villager(birth_year) == [birth_year |-> birth_year, house |-> 0, work_place |-> 0]

RECURSIVE Sum(_, _)
Sum(f, n) == IF n = 0 THEN 0 ELSE f[n] + Sum(f, n - 1)

-----------------------------------------------------------------------------
(* Settlement (src/src/simulation/settlement.py) *)

MaxBuildings == 3   \* at most MaxBuildings buildings are added to a settlement
MaxYear == 2        \* the driver calls update for the years 1..MaxYear
MaxMaxScore == 1    \* a max_score, when given, is 0..MaxMaxScore

\* the state a Settlement method works on
Settlement ==
    [chronology |-> chronology, buildings |-> buildings, counter |-> counter,
     inhabitants |-> inhabitants, food_available |-> food_available,
     occupied_coords |-> occupied_coords]

population(st) == Len(st.inhabitants)

number_of_beds(st) ==
    Sum([i \in 1 .. Len(st.chronology) |-> properties(st.chronology[i]).number_of_beds],
        Len(st.chronology))

worker_number(st) ==
    Sum([i \in 1 .. Len(st.chronology) |-> Len(st.chronology[i].workers)], Len(st.chronology))

total_worker_slots(st) ==
    Sum([i \in 1 .. Len(st.chronology) |-> properties(st.chronology[i]).workers],
        Len(st.chronology))

food_production(st) ==
    Sum([i \in 1 .. Len(st.chronology) |-> properties(st.chronology[i]).food_production],
        Len(st.chronology))

\* the indexes i..n, in order, of the villagers without a house
RECURSIVE HomelessFrom(_, _)
HomelessFrom(st, i) ==
    IF i > Len(st.inhabitants) THEN <<>>
    ELSE (IF st.inhabitants[i].house = 0 THEN <<i>> ELSE <<>>) \o HomelessFrom(st, i + 1)

homeless_villagers(st) == HomelessFrom(st, 1)

\* the indexes i..n, in order, of the villagers without a work place
RECURSIVE InactiveFrom(_, _)
InactiveFrom(st, i) ==
    IF i > Len(st.inhabitants) THEN <<>>
    ELSE (IF st.inhabitants[i].work_place = 0 THEN <<i>> ELSE <<>>) \o InactiveFrom(st, i + 1)

inactive_villagers(st) == InactiveFrom(st, 1)

\* number of names that are keys of __buildings: a key is made by build's append
LenBuildings(st) == Cardinality({n \in Names : st.buildings[n] # <<>>})

\* the road loop of build: the chronology indexes (from 1) whose entrance a road was
\* computed to; road_at is the attempt at which compute_roads answers True (0: never)
RoadTargets(st, road_at) ==
    IF LenBuildings(st) > 1
       /\ ~properties(st.chronology[Len(st.chronology)]).is_extension
    THEN LET max_i == LenBuildings(st) - 1
             tried == IF road_at = 0 \/ road_at > max_i THEN max_i ELSE road_at
         IN  [i \in 1 .. tried |-> i]
    ELSE <<>>

\* build putting the building at the head of the chronology
build_at_head(st, building, origin) ==
    LET n == Len(st.chronology) + 1
    IN  [st EXCEPT !.occupied_coords = st.occupied_coords
                        \cup occupy(origin, properties(building).size, properties(building).padding),
                   !.chronology = <<building>> \o st.chronology,
                   !.buildings[building.name] = Append(st.buildings[building.name], n)]

\* build(building, plot): the building is built at the origin of its plot
build(st, building, origin) ==
    LET n == Len(st.chronology) + 1
    IN  [st EXCEPT !.occupied_coords = st.occupied_coords
                        \cup occupy(origin, properties(building).size, properties(building).padding),
                   !.chronology = Append(st.chronology, building),
                   !.buildings[building.name] = Append(st.buildings[building.name], n)]

\* get_subplot(building, rotation, max_score, city_buildings): the placement search
get_subplot(st, building, max_score) ==
    find_spot(properties(building).size, 1, max_score, st.occupied_coords)

\* add_building with the `plot is None` test dropped
add_building_unchecked(st, building, max_score) ==
    LET plot == get_subplot(st, building, max_score)
        built == build(st, building, IF plot.found THEN plot.spot ELSE <<0, 0, 0>>)
    IN  [ret |-> TRUE, spot |-> plot.spot,
         st |-> [built EXCEPT !.counter[building.name] = st.counter[building.name] + 1]]

\* add_building counting the building before it looks for a plot
add_building_counts_first(st, building, max_score) ==
    LET plot == get_subplot(st, building, max_score)
        counted == [st EXCEPT !.counter[building.name] = st.counter[building.name] + 1]
    IN  IF ~plot.found THEN [ret |-> FALSE, spot |-> NoSpot, st |-> counted]
        ELSE [ret |-> TRUE, spot |-> plot.spot, st |-> build(counted, building, plot.spot)]

\* add_building(building, max_score): the value returned and the settlement left
add_building(st, building, max_score) ==
    LET plot == get_subplot(st, building, max_score)
    IN  IF ~plot.found THEN [ret |-> FALSE, spot |-> NoSpot, st |-> st]
        ELSE LET built == build(st, building, plot.spot)
             IN  [ret |-> TRUE, spot |-> plot.spot,
                  st |-> [built EXCEPT !.counter[building.name] = st.counter[building.name] + 1]]

is_building_constructible(st, name, data) ==
    /\ data_get(data, "cost", 0) <= worker_number(st)
    /\ data.type # "DECORATION"
    /\ st.counter[name] < data_get(data, "maximum", 1)

\* get_constructible_buildings(): the names of the buildings returned, in catalog order
get_constructible_buildings(st) ==
    SelectSeq(CatalogOrder, LAMBDA name : is_building_constructible(st, name, BUILDINGS[name]))

\* the chronology indexes i..n, in order, of the buildings with a free bed
RECURSIVE AvailableHousesFrom(_, _)
AvailableHousesFrom(st, i) ==
    IF i > Len(st.chronology) THEN <<>>
    ELSE (IF has_empty_beds(st.chronology[i]) THEN <<i>> ELSE <<>>)
            \o AvailableHousesFrom(st, i + 1)

\* the loop of __fill_houses from the j-th homeless villager on
RECURSIVE FillHousesLoop(_, _, _, _)
FillHousesLoop(st, homeless, j, available_houses) ==
    IF j > Len(homeless) \/ available_houses = <<>> THEN st
    ELSE LET villager == homeless[j]
             house == available_houses[Len(available_houses)]
             popped == SubSeq(available_houses, 1, Len(available_houses) - 1)
             after == [st EXCEPT
                         !.chronology[house].inhabitants = Append(@, villager),
                         !.inhabitants[villager].house = house]
         IN  FillHousesLoop(after, homeless, j + 1,
                            IF has_empty_beds(after.chronology[house])
                            THEN Append(popped, house) ELSE popped)

\* __fill_houses taking every building of the chronology for an available house
__fill_houses_any_building(st) ==
    FillHousesLoop(st, homeless_villagers(st), 1, [i \in 1 .. Len(st.chronology) |-> i])

\* __fill_houses leaving its loop after the first homeless villager
__fill_houses_one_villager(st) ==
    FillHousesLoop(st, SubSeq(homeless_villagers(st), 1, 1), 1, AvailableHousesFrom(st, 1))

\* __fill_houses with the list of available houses in reverse order
__fill_houses_first_built(st) ==
    LET houses == AvailableHousesFrom(st, 1)
    IN  FillHousesLoop(st, homeless_villagers(st), 1,
                       [i \in 1 .. Len(houses) |-> houses[Len(houses) + 1 - i]])

__fill_houses(st) == FillHousesLoop(st, homeless_villagers(st), 1, AvailableHousesFrom(st, 1))

\* the chronology indexes i..n, in order, of the buildings that can offer work
RECURSIVE AvailableWorkPlacesFrom(_, _)
AvailableWorkPlacesFrom(st, i) ==
    IF i > Len(st.chronology) THEN <<>>
    ELSE (IF can_offer_work(st.chronology[i]) THEN <<i>> ELSE <<>>)
            \o AvailableWorkPlacesFrom(st, i + 1)

\* the loop of __fill_work_places from the j-th inactive villager on
RECURSIVE FillWorkPlacesLoop(_, _, _, _)
FillWorkPlacesLoop(st, inactive, j, available_work_places) ==
    IF j > Len(inactive) \/ available_work_places = <<>> THEN st
    ELSE LET villager == inactive[j]
             work_place == available_work_places[Len(available_work_places)]
             popped == SubSeq(available_work_places, 1, Len(available_work_places) - 1)
             after == [st EXCEPT
                         !.chronology[work_place].workers = Append(@, villager),
                         !.inhabitants[villager].work_place = work_place]
         IN  FillWorkPlacesLoop(after, inactive, j + 1,
                                IF can_offer_work(after.chronology[work_place])
                                THEN Append(popped, work_place) ELSE popped)

\* __fill_work_places taking every building of the chronology for a work place
__fill_work_places_any_building(st) ==
    FillWorkPlacesLoop(st, inactive_villagers(st), 1, [i \in 1 .. Len(st.chronology) |-> i])

__fill_work_places(st) ==
    FillWorkPlacesLoop(st, inactive_villagers(st), 1, AvailableWorkPlacesFrom(st, 1))

Min(a, b) == IF a < b THEN a ELSE b
Max(a, b) == IF a > b THEN a ELSE b

\* the new villagers born in the year before
Born_last_year(k, yr) == [i \in 1 .. k |-> Villager(yr - 1)]

\* range(k) taken for a range of |k| values
Born_absolute(k, yr) == [i \in 1 .. Abs(k) |-> Villager(yr)]

\* [Villager(year) for _ in range(k)]: nothing for k <= 0
Born(k, yr) == [i \in 1 .. k |-> Villager(yr)]

\* food_for_children without the second subtraction of the population
food_for_children_fed_once(fed) == fed.food_available

\* food_for_children = self.food_available - self.population, after everyone is fed
food_for_children(fed) == fed.food_available - population(fed)

\* the food and birth rules of update, before houses and work places are filled
UpdateResources(st, yr) ==
    LET stocked == [st EXCEPT !.food_available = st.food_available + food_production(st)]
    IN  IF stocked.food_available >= population(stocked)
        THEN LET fed == [stocked EXCEPT !.food_available = @ - population(stocked)]
             IN  IF number_of_beds(fed) >= population(fed)
                 THEN LET max_children_amount ==
                              Min(population(fed) \div 2, number_of_beds(fed) - population(fed))
                          k == Max(0, Min(food_for_children(fed), max_children_amount))
                      IN  [fed EXCEPT !.inhabitants = @ \o Born(k, yr)]
                 ELSE fed
        ELSE LET fed == [stocked EXCEPT !.food_available = @ - population(stocked)]
             IN  [fed EXCEPT !.inhabitants = @ \o Born(fed.food_available, yr),
                             !.food_available = 0]

\* update(year); `last` keeps the settlement as update got it (before), as
\* __fill_houses got it (fed) and as __fill_houses left it (housed)
update(st, yr) == __fill_work_places(__fill_houses(UpdateResources(st, yr)))

\* the settlement variables after a method leaves st
Becomes(st) ==
    /\ chronology' = st.chronology
    /\ buildings' = st.buildings
    /\ counter' = st.counter
    /\ inhabitants' = st.inhabitants
    /\ food_available' = st.food_available
    /\ occupied_coords' = st.occupied_coords

MaxScores ==
    {[given |-> FALSE, value |-> 0]} \cup {[given |-> TRUE, value |-> v] : v \in 0 .. MaxMaxScore}

\* `last` only records the call just made; no method reads it.  States that differ in
\* `last` alone have the same future, so the model goes on from one of them: from a
\* successful add_building made without max_score that tried at most one road (a
\* failed add_building leaves the settlement as it was before the call).
Continues ==
    /\ last.op = "add_building"
        => last.ret /\ ~last.max_score.given /\ Len(last.roads) <= 1
    /\ last.op = "build" => Len(last.roads) <= 1

AddBuilding(name, max_score) ==
    /\ Len(chronology) < MaxBuildings
    /\ Continues
    /\ \E call \in {add_building(Settlement, Building(name), max_score)} :
         LET targets == IF call.ret THEN RoadTargets(call.st, 0) ELSE <<>>
         IN  /\ Becomes(call.st)
             /\ \E road_at \in 0 .. Len(targets) :
                  last' = [op |-> "add_building", name |-> name, max_score |-> max_score,
                           ret |-> call.ret, spot |-> call.spot,
                           roads |-> IF call.ret THEN RoadTargets(call.st, road_at) ELSE <<>>,
                           pre |-> Settlement]
    /\ UNCHANGED <<plotVars, foundation_blocks, placed, year, treeVars>>

\* build(building, plot) called by the driver itself, on a plot it got from get_subplot
Build(name) ==
    /\ Len(chronology) < MaxBuildings
    /\ Continues
    /\ \E plot \in {get_subplot(Settlement, Building(name), [given |-> FALSE, value |-> 0])} :
         /\ plot.found
         /\ \E built \in {build(Settlement, Building(name), plot.spot)} :
              /\ Becomes(built)
              /\ \E road_at \in 0 .. Len(RoadTargets(built, 0)) :
                    last' = [op |-> "build", name |-> name, spot |-> plot.spot,
                             roads |-> RoadTargets(built, road_at), pre |-> Settlement]
    /\ UNCHANGED <<plotVars, foundation_blocks, placed, year, treeVars>>

Update ==
    /\ year <= MaxYear
    /\ Continues
    /\ Becomes(update(Settlement, year))
    /\ year' = year + 1
    /\ last' = [op |-> "update", year |-> year,
                pre |-> [population |-> population(Settlement),
                         number_of_beds |-> number_of_beds(Settlement),
                         food_production |-> food_production(Settlement),
                         food_available |-> food_available],
                before |-> Settlement,
                fed |-> UpdateResources(Settlement, year),
                housed |-> __fill_houses(UpdateResources(Settlement, year))]
    /\ UNCHANGED <<plotVars, foundation_blocks, placed, treeVars>>

\* Settlement(plot, population=p, food=f)
InitSettlement(p, f) ==
    /\ chronology = <<>>
    /\ buildings = [n \in Names |-> <<>>]
    /\ counter = [n \in Names |-> 0]
    /\ inhabitants = [i \in 1 .. p |-> Villager(0)]
    /\ food_available = f
    /\ year = 1

NoSettlement == InitSettlement(0, 0)

-----------------------------------------------------------------------------
(* Plot.remove_trees (src/build_area.py) *)

MaxTreeWidth == 2   \* remove_trees runs on plots MaxTreeWidth wide and 1 deep
MaxTreeY == 1       \* the snapshot holds the blocks at y = 0..MaxTreeY, air above

\* the block names of the snapshot
BlockNames == {"air", "dirt", "oak_log"}

\* the patterns a block name contains
Contains == [air |-> {}, dirt |-> {}, oak_log |-> {"log"}]

remove_filter == {"leaves", "log", "vine", "stern", "cocoa", "bush"}

\* Block(name, coordinates): a value, equal to every block of the same name and
\* coordinates
Block(name, coordinates) == [name |-> name, coordinates |-> coordinates]

\* block.is_one_of(pattern)
is_one_of(block, pattern) == Contains[block.name] \cap pattern # {}

\* Block.filter(pattern, blocks): the set of the blocks that match
Block_filter(pattern, blocks) == {block \in blocks : is_one_of(block, pattern)}

\* block.neighbouring_coordinates(): the coordinates of the six faces
neighbouring_coordinates(block) ==
    {shift(block.coordinates, d[1], d[2], d[3]) :
        d \in {<<1, 0, 0>>, <<-1, 0, 0>>, <<0, 1, 0>>, <<0, -1, 0>>, <<0, 0, 1>>, <<0, 0, -1>>}}

\* coordinates.is_in_area(plot): between Plot.start (y = 0) and Plot.end (y = 255)
is_in_area(c) == InPlot(c) /\ 0 <= Y(c) /\ Y(c) <= 255

\* the coordinates the snapshot holds a block of
WorldCoords ==
    {<<x, y, z>> : x \in start[1] .. PlotEnd[1] - 1, y \in 0 .. MaxTreeY,
                   z \in start[2] .. PlotEnd[2] - 1}

\* get_block_at(x, y, z): read from the snapshot, which no placeBlock changes
get_block_at(c) == Block(IF c \in DOMAIN world THEN world[c] ELSE "air", c)

\* the heightmap "WORLD_SURFACE" of a snapshot w: one above the highest block of
\* the column that is not air
RECURSIVE SurfaceFrom(_, _, _, _)
SurfaceFrom(w, x, z, y) ==
    IF y < 0 THEN 0
    ELSE IF w[<<x, y, z>>] # "air" THEN y + 1
    ELSE SurfaceFrom(w, x, z, y - 1)

world_surface(w) ==
    [c \in Cells(size) |-> SurfaceFrom(w, start[1] + c[1], start[2] + c[2], MaxTreeY)]

\* get_blocks_at_surface('WORLD_SURFACE').values()
get_blocks_at_surface ==
    {get_block_at(<<start[1] + c[1], world_surface(world)[c] - 1, start[2] + c[2]>>) :
        c \in Cells(size)}

\* remove_trees up to its loop
RemoveTreesBegin ==
    /\ phase = "idle"
    /\ unwanted_blocks' = Block_filter(remove_filter, get_blocks_at_surface)
    /\ deleted_blocks' = {}
    /\ phase' = "loop"
    /\ UNCHANGED <<plotVars, occupied_coords, foundation_blocks, placed, settlementVars,
                   last, world, buffer, pops>>

\* as BlocksAround, were the deleted coordinates not skipped
BlocksAround_deleted_too(block, unwanted) ==
    {get_block_at(coordinates) : coordinates \in
        {c \in neighbouring_coordinates(block) :
            /\ is_in_area(c)
            /\ get_block_at(c) \notin unwanted
            /\ is_one_of(get_block_at(c), remove_filter)}}

\* the neighbours of a popped block that the loop adds to the worklist
BlocksAround(block, unwanted) ==
    {get_block_at(coordinates) : coordinates \in
        {c \in neighbouring_coordinates(block) :
            /\ c \notin deleted_blocks
            /\ is_in_area(c)
            /\ get_block_at(c) \notin unwanted
            /\ is_one_of(get_block_at(c), remove_filter)}}

\* one turn of the loop: set.pop() takes any block of the worklist
RemoveTreesPop(block) ==
    /\ phase = "loop"
    /\ block \in unwanted_blocks
    /\ LET rest == unwanted_blocks \ {block}
           around == BlocksAround(block, rest)
       IN  /\ unwanted_blocks' = rest \cup around
           /\ buffer' = [c \in DOMAIN buffer \cup {b.coordinates : b \in around}
                                              \cup {block.coordinates} |->
                            IF c = block.coordinates THEN "air"
                            ELSE IF c \in {b.coordinates : b \in around} THEN "tnt"
                            ELSE buffer[c]]
    /\ deleted_blocks' = deleted_blocks \cup {block.coordinates}
    /\ pops' = [pops EXCEPT ![block.coordinates] = @ + 1]
    /\ UNCHANGED <<plotVars, occupied_coords, foundation_blocks, placed, settlementVars,
                   last, world, phase>>

\* the loop is left with the worklist empty: sendBlocks() and self.update()
RemoveTreesEnd ==
    /\ phase = "loop"
    /\ unwanted_blocks = {}
    /\ world' = [c \in DOMAIN world |-> IF c \in DOMAIN buffer THEN buffer[c] ELSE world[c]]
    /\ heightmap' = world_surface(world')
    /\ buffer' = <<>>
    /\ phase' = "done"
    /\ UNCHANGED <<start, size, water, occupied_coords, foundation_blocks, placed,
                   settlementVars, last, unwanted_blocks, deleted_blocks, pops>>

\* no snapshot, no remove_trees
NoTrees ==
    /\ world = <<>>
    /\ unwanted_blocks = {}
    /\ deleted_blocks = {}
    /\ buffer = <<>>
    /\ pops = <<>>
    /\ phase = "none"

-----------------------------------------------------------------------------
(* The calls made on a construction plot *)

MinFootprint == 0   \* the least width a caller asks for: range(0) is empty

\* the sizes asked for: every width and depth of 1..MaxFootprint, and one footprint
\* of the least width
Footprints == ((1 .. MaxFootprint) \X (1 .. MaxFootprint)) \cup {<<MinFootprint, 1>>}

NoCall == [op |-> "none", size |-> <<0, 0>>, speed |-> 0, padding |-> 0,
           outcome |-> "none", spot |-> NoSpot, score |-> WorstScore]

\* get_construction_spot(size, speed): rebuilds the pool, then searches it.
\* A search reads the terrain and occupied_coords only, so repeating it without an
\* occupy_area in between returns the same: the next search follows a commit.
GetConstructionSpot(sz, speed) ==
    /\ Len(placed) < MaxPlaced
    /\ last.op # "get_construction_spot"
    /\ \E keys_list \in {_build_foundation_blocks(occupied_coords)} :
         \E found \in {BestSpot(keys_list, sz, speed)} :
            /\ foundation_blocks' = keys_list
            /\ last' = [op |-> "get_construction_spot", size |-> sz, speed |-> speed,
                        padding |-> 0, outcome |-> found.outcome, spot |-> found.spot,
                        score |-> found.score]
    /\ UNCHANGED <<plotVars, occupied_coords, placed, settlementVars, treeVars>>

\* a building is built at the spot just returned and occupy_area(spot, size, padding)
\* commits it before the next search
OccupyArea(padding) ==
    /\ last.op = "get_construction_spot"
    /\ last.outcome = "return"
    /\ occupied_coords' = occupied_coords \cup OccupyAreaCoords(last.spot, last.size, padding)
    /\ placed' = Append(placed, [origin |-> last.spot, size |-> last.size, padding |-> padding])
    /\ last' = [NoCall EXCEPT !.op = "occupy_area", !.size = last.size, !.padding = padding,
                               !.outcome = "return", !.spot = last.spot]
    /\ UNCHANGED <<plotVars, foundation_blocks, settlementVars, treeVars>>

\* a constructed ConstructionPlot(x, z, size) over any terrain
InitPlot ==
    /\ start \in {<<s, s>> : s \in 0 .. MaxStart}
    /\ size \in (1 .. MaxWidth) \X (1 .. MaxDepth)
    /\ heightmap \in [Cells(size) -> 1 .. MaxHeight]
    /\ water \in SUBSET {c \in Cells(size) : heightmap[c] = SeaLevel}
    /\ occupied_coords = {}
    /\ foundation_blocks = <<>>
    /\ placed = <<>>

Init ==
    /\ InitPlot
    /\ NoSettlement
    /\ NoTrees
    /\ last = NoCall

Next ==
    \/ \E sz \in Footprints, speed \in 1 .. MaxSpeed : GetConstructionSpot(sz, speed)
    \/ \E padding \in 0 .. MaxPadding : OccupyArea(padding)

Spec == Init /\ [][Next]_vars

\* the <<population, food>> settlements are created with
Founding == {<<2, 0>>, <<2, 10>>, <<10, 10>>}

\* the city plot of a settlement: a plot of full size at (0, 0) whose ground steps up
\* by one at the column x = ridge, dry or with water over all the ground at sea level
InitCityPlot ==
    /\ start = <<0, 0>>
    /\ size = <<MaxWidth, MaxDepth>>
    /\ \E ridge \in 0 .. MaxWidth :
            heightmap = [c \in Cells(size) |-> IF c[1] >= ridge THEN 2 ELSE 1]
    /\ water \in {{}, {c \in Cells(size) : heightmap[c] = SeaLevel}}
    /\ occupied_coords = {}
    /\ foundation_blocks = <<>>
    /\ placed = <<>>

InitSettle ==
    /\ InitCityPlot
    /\ \E pf \in Founding : InitSettlement(pf[1], pf[2])
    /\ NoTrees
    /\ last = [op |-> "none"]

NextSettle ==
    \/ \E name \in Names, max_score \in MaxScores : AddBuilding(name, max_score)
    \/ \E name \in Names : Build(name)
    \/ Update

SpecSettle == InitSettle /\ [][NextSettle]_vars

\* searches on a plot of full size over stepped ground, each spot returned being
\* committed with the widest padding
InitSearch ==
    /\ InitCityPlot
    /\ NoSettlement
    /\ NoTrees
    /\ last = NoCall

NextSearch ==
    \/ \E sz \in Footprints, speed \in 1 .. MaxSpeed : GetConstructionSpot(sz, speed)
    \/ OccupyArea(MaxPadding)

SpecSearch == InitSearch /\ [][NextSearch]_vars

\* a plot MaxTreeWidth wide over any snapshot of the block names
InitTrees ==
    /\ start = <<0, 0>>
    /\ size = <<MaxTreeWidth, 1>>
    /\ world \in [WorldCoords -> BlockNames]
    /\ heightmap = world_surface(world)
    /\ water = {}
    /\ occupied_coords = {}
    /\ foundation_blocks = <<>>
    /\ placed = <<>>
    /\ NoSettlement
    /\ last = NoCall
    /\ unwanted_blocks = {}
    /\ deleted_blocks = {}
    /\ buffer = <<>>
    /\ pops = [c \in WorldCoords |-> 0]
    /\ phase = "idle"

NextTrees ==
    \/ RemoveTreesBegin
    \/ \E block \in unwanted_blocks : RemoveTreesPop(block)
    \/ RemoveTreesEnd

\* remove_trees runs on: a step is taken whenever one can be
SpecTrees == InitTrees /\ [][NextTrees]_vars /\ WF_vars(NextTrees)

-----------------------------------------------------------------------------
(* Claims about the construction plot, checked under Spec *)

\* the columns <<x, z>> of a footprint at origin widened by padding on every side
Rect(origin, sz, padding) ==
    ((X(origin) - padding) .. (X(origin) + sz[1] + padding - 1))
        \X ((Z(origin) - padding) .. (Z(origin) + sz[2] + padding - 1))

Footprint(origin, sz) == Rect(origin, sz, 0)

Pool == {foundation_blocks[i] : i \in 1 .. Len(foundation_blocks)}

Searched == last.op = "get_construction_spot"

\* C1: the footprint of a later placed building shares no column with the
\* footprint-plus-padding rectangle of an earlier placed building.
C1_NoDoubleBooking ==
    \A i, j \in 1 .. Len(placed) :
        i < j => Footprint(placed[j].origin, placed[j].size)
                    \cap Rect(placed[i].origin, placed[i].size, placed[i].padding) = {}

\* C2: after occupy_area(origin, size, padding) every column of the footprint widened
\* by the padding is in occupied_coords, projected to y = 0.
C2_OccupyCoversFootprint ==
    \A i \in 1 .. Len(placed) :
        \A c \in Rect(placed[i].origin, placed[i].size, placed[i].padding) :
            <<c[1], 0, c[2]>> \in occupied_coords

\* C3: a pool rebuilt after occupy_area calls has no key over a column those calls
\* claimed, whatever the height of the column.
C3_PoolExcludesOccupied ==
    Searched => \A c \in Pool : with_y(c, 0) \notin occupied_coords

\* a candidate of the pool whose footprint lies inside the plot, off every claimed column
FitsAt(coord, sz) ==
    \A c \in Footprint(coord, sz) :
        /\ InPlot(<<c[1], 0, c[2]>>)
        /\ <<c[1], 0, c[2]>> \notin occupied_coords

\* C4: with stride 1 and a footprint that fits somewhere in the plot without occupancy
\* conflict, the search returns a pool coordinate whose score is the minimum of
\* _get_score over the pool.
C4_ReturnsMinimumScore ==
    (Searched /\ last.speed = 1 /\ \E coord \in Pool : FitsAt(coord, last.size))
        => /\ last.outcome = "return"
           /\ last.spot \in Pool
           /\ \A coord \in Pool :
                /\ ~_get_score(coord, last.size).raised
                /\ ~ScoreLess(_get_score(coord, last.size), _get_score(last.spot, last.size))

\* C5: a search over an empty pool reports NoSuitableSpot; it neither raises nor
\* returns coordinates.
C5_EmptyPoolReported ==
    (Searched /\ foundation_blocks = <<>>) => last.outcome = "NoSuitableSpot"

\* a footprint with a cell outside the plot bound or on a water column
OffPlotOrOnWater(coord, sz) ==
    \E c \in Footprint(coord, sz) :
        ~InPlot(<<c[1], 0, c[2]>>) \/ IsWater(<<c[1], 0, c[2]>>)

\* C7: for a candidate whose footprint has a cell outside the plot or on water,
\* _get_score returns the sentinel worst score.
C7_SentinelOffPlotOrWater ==
    \A coord \in Pool, sz \in Footprints :
        OffPlotOrOnWater(coord, sz) => _get_score(coord, sz) = WorstScore

\* C8: _get_score never raises; a failed heightmap lookup yields the sentinel.
C8_ScoreNeverRaises ==
    \A coord \in Pool, sz \in Footprints : ~_get_score(coord, sz).raised

-----------------------------------------------------------------------------
(* Claims about the settlement, checked under SpecSettle *)

Added == last.op = "add_building"

\* the candidates the placement search of the last add_building visited
VisitedBefore ==
    LET pool == CandidatesFrom(0, last.pre.occupied_coords)
    IN  {pool[i] : i \in 1 .. Len(pool)}

LastSize == BUILDINGS[last.name].size

\* every visited candidate scores above the max_score of the last add_building
MinimumExceeds ==
    \A c \in VisitedBefore : Exceeds(score(c, LastSize), last.max_score.value)

C9_FailedAddChangesNothing ==
    (Added /\ ~last.ret)
        => /\ occupied_coords = last.pre.occupied_coords
           /\ chronology = last.pre.chronology
           /\ buildings = last.pre.buildings
           /\ counter = last.pre.counter
           /\ inhabitants = last.pre.inhabitants

\* a failed add_building in a settlement that has buildings and housed villagers
C9_FailedAfterHousing ==
    /\ Added /\ ~last.ret
    /\ chronology # <<>>
    /\ \E i \in 1 .. Len(inhabitants) : inhabitants[i].house # 0

\* update was just called with population 10, 12 beds, food production 4, food stock 10
C10_Scenario ==
    /\ last.op = "update"
    /\ last.pre = [population |-> 10, number_of_beds |-> 12, food_production |-> 4,
                   food_available |-> 10]

\* C10, as claimed: the update leaves food_available = 0 and adds min(5, 2) = 2 villagers.
C10_AsClaimed ==
    C10_Scenario => food_available = 0 /\ Len(inhabitants) = 10 + 2

\* C10, amended: the update leaves food_available = 4 and adds no villager.
C10_FoodFourNoBirth ==
    C10_Scenario => food_available = 4 /\ Len(inhabitants) = 10

\* the last call was update: last.fed is the settlement __fill_houses was called on,
\* last.housed the settlement it left, and the variables hold what __fill_work_places left
Updated == last.op = "update"

NoFreeBed(st) == \A i \in 1 .. Len(st.chronology) : ~has_empty_beds(st.chronology[i])

\* C11: when no building of the chronology has a free bed, __fill_houses leaves every
\* homeless villager homeless and changes the inhabitants of no building.
C11_NoFreeBedNoChange ==
    (Updated /\ NoFreeBed(last.fed))
        => /\ homeless_villagers(last.housed) = homeless_villagers(last.fed)
           /\ last.housed.inhabitants = last.fed.inhabitants
           /\ last.housed.chronology = last.fed.chronology

\* __fill_houses ran on a settlement with buildings, none with a free bed, and at
\* least two homeless villagers
C11_FullAndHomeless ==
    /\ Updated /\ NoFreeBed(last.fed)
    /\ last.fed.chronology # <<>>
    /\ \E i \in 1 .. Len(last.fed.chronology) : last.fed.chronology[i].inhabitants # <<>>
    /\ Len(homeless_villagers(last.fed)) >= 2

\* the number of buildings of a name in the chronology
Instances(name) == Cardinality({i \in 1 .. Len(chronology) : chronology[i].name = name})

Constructible ==
    {get_constructible_buildings(Settlement)[i] :
        i \in 1 .. Len(get_constructible_buildings(Settlement))}

\* C12: get_constructible_buildings never returns a catalog entry whose number of
\* instances in the chronology equals its declared maximum (1 when none is declared).
C12_NeverReturnsAtMaximum ==
    \A name \in Constructible :
        Instances(name) # data_get(BUILDINGS[name], "maximum", 1)

\* the food stock of the last update after the production of the year came in
Stocked == last.pre.food_available + last.pre.food_production

InsufficientFood == Updated /\ Stocked < last.pre.population

InvalidFootprint(sz) == sz[1] <= 0 \/ sz[2] <= 0 \/ sz[1] > size[1] \/ sz[2] > size[2]

\* C14: a search for a footprint that is non-positive or exceeds the plot bound is
\* rejected with InvalidFootprint and returns no coordinate.
C14_InvalidFootprintRejected ==
    (Searched /\ InvalidFootprint(last.size))
        => last.outcome = "InvalidFootprint" /\ last.spot = NoSpot

\* the houses the last __fill_houses gave, in the order it gave them: it takes the
\* homeless villagers in roster order
Assigned ==
    LET homeless == homeless_villagers(last.fed)
    IN  SelectSeq([j \in 1 .. Len(homeless) |-> last.housed.inhabitants[homeless[j]].house],
                  LAMBDA house : house # 0)

\* the buildings with a free bed when the last __fill_houses began
BedPool == {i \in 1 .. Len(last.fed.chronology) : has_empty_beds(last.fed.chronology[i])}

\* the free beds of building i before the k-th assignment
FreeBedsBefore(i, k) ==
    properties(last.fed.chronology[i]).number_of_beds
        - Len(last.fed.chronology[i].inhabitants)
        - Cardinality({m \in 1 .. k - 1 : Assigned[m] = i})

\* C15, as claimed: within one pass of __fill_houses no building receives a second
\* new inhabitant while another building of the pool has not yet received one.
C15_RoundRobin ==
    Updated
        => \A j, k \in 1 .. Len(Assigned) :
                (j < k /\ Assigned[j] = Assigned[k])
                    => \A b \in BedPool : \E m \in 1 .. k - 1 : Assigned[m] = b

\* C15, amended: every villager housed in one pass of __fill_houses goes to the
\* last-built building that has a free bed at that moment, so a building is filled
\* completely before the one built before it receives anyone.
C15_LastBuiltFilledFirst ==
    Updated
        => \A k \in 1 .. Len(Assigned) :
                /\ FreeBedsBefore(Assigned[k], k) > 0
                /\ \A b \in BedPool : b > Assigned[k] => FreeBedsBefore(b, k) = 0

\* a pass over two buildings with free beds that housed villagers in both
C15_TwoHousesFilled ==
    /\ Updated
    /\ Cardinality(BedPool) >= 2
    /\ Cardinality({Assigned[k] : k \in 1 .. Len(Assigned)}) >= 2

\* a footprint that lies inside the plot
InsidePlot(coord, sz) == \A c \in Footprint(coord, sz) : InPlot(<<c[1], 0, c[2]>>)

\* 0.1 times the planar distance to the centre plus, over the cells of the footprint,
\* the difference between the heightmap at the origin and the heightmap at the cell
ClaimedScore(coord, sz) ==
    [raised |-> FALSE,
     h |-> Sum([i \in 1 .. sz[1] * sz[2] |->
                    Abs(height_at(coord) - height_at(ScoreCell(coord, sz, i - 1)))],
               sz[1] * sz[2]),
     d2 |-> distance2(with_y(coord, 0), <<center[1], 0, center[2]>>)]

SameScore(a, b) == a.raised = b.raised /\ ~ScoreLess(a, b) /\ ~ScoreLess(b, a)

\* C16: for a candidate whose footprint lies inside the plot, _get_score is 0.1 times
\* the planar distance from the origin to the plot centre plus the sum over the cells
\* of the footprint of |height of the origin's column - height of the cell's column|.
C16_ScoreIsDistancePlusHeightDifferences ==
    \A coord \in Pool, sz \in Footprints :
        InsidePlot(coord, sz) => SameScore(_get_score(coord, sz), ClaimedScore(coord, sz))

SufficientFood == Updated /\ Stocked >= last.pre.population

\* the number of births claimed for the last update
ClaimedBirths ==
    LET pop == last.pre.population
        beds == last.pre.number_of_beds
        fed_stock == Stocked - pop
    IN  IF beds >= pop
        THEN Max(0, Min(fed_stock - pop, Min(pop \div 2, beds - pop)))
        ELSE 0

\* C17: in the sufficient-food branch the population is subtracted from the stock
\* once, and max(0, min(food_available - population, min(population // 2,
\* number_of_beds - population))) villagers born in the current year are added if
\* number_of_beds >= population, none otherwise.
C17_BirthsWhenFed ==
    SufficientFood
        => /\ last.fed.food_available = Stocked - last.pre.population
           /\ last.fed.inhabitants
                = last.before.inhabitants \o [i \in 1 .. ClaimedBirths |-> Villager(last.year)]

\* an update with enough food in which a villager was born
C17_Birth == SufficientFood /\ ClaimedBirths > 0 /\ last.pre.population > 0

\* the buildings of st that hold villager v as an inhabitant
HousesOf(st, v) ==
    {i \in 1 .. Len(st.chronology) :
        \E j \in 1 .. Len(st.chronology[i].inhabitants) : st.chronology[i].inhabitants[j] = v}

\* building i of st holds no villager twice
NoInhabitantTwice(st, i) ==
    \A j, k \in 1 .. Len(st.chronology[i].inhabitants) :
        j # k => st.chronology[i].inhabitants[j] # st.chronology[i].inhabitants[k]

\* C18: when __fill_houses returns, no villager is homeless or no building has a free
\* bed; every villager is an inhabitant of at most one house, and no building holds
\* more inhabitants than it has beds.
C18_HousingExhaustsAPool ==
    Updated
        => /\ homeless_villagers(last.housed) = <<>> \/ NoFreeBed(last.housed)
           /\ \A v \in 1 .. Len(last.housed.inhabitants) :
                /\ Cardinality(HousesOf(last.housed, v)) <= 1
                /\ last.housed.inhabitants[v].house # 0
                        => HousesOf(last.housed, v) = {last.housed.inhabitants[v].house}
           /\ \A i \in 1 .. Len(last.housed.chronology) :
                /\ NoInhabitantTwice(last.housed, i)
                /\ Len(last.housed.chronology[i].inhabitants)
                        <= properties(last.housed.chronology[i]).number_of_beds

\* a pass that housed several villagers until no bed was left, with villagers still
\* homeless
C18_BedsRanOut ==
    /\ Updated
    /\ Len(Assigned) >= 2
    /\ NoFreeBed(last.housed)
    /\ homeless_villagers(last.housed) # <<>>

NoWorkOffered(st) == \A i \in 1 .. Len(st.chronology) : ~can_offer_work(st.chronology[i])

\* C19: __fill_work_places runs after __fill_houses in the same update, on the
\* settlement __fill_houses left; when it returns no villager is without a work
\* place or no building can offer work, and worker_number never exceeds
\* total_worker_slots.
C19_JobsExhaustAPool ==
    /\ worker_number(Settlement) <= total_worker_slots(Settlement)
    /\ Updated
        => /\ inactive_villagers(Settlement) = <<>> \/ NoWorkOffered(Settlement)
           /\ \A v \in 1 .. Len(inhabitants) :
                inhabitants[v].house = last.housed.inhabitants[v].house
           /\ \A i \in 1 .. Len(chronology) :
                /\ chronology[i].inhabitants = last.housed.chronology[i].inhabitants
                /\ Len(chronology[i].workers) <= properties(chronology[i]).workers

\* an update that gave villagers work until no building could offer more, with
\* villagers still without a work place
C19_WorkRanOut ==
    /\ Updated
    /\ worker_number(Settlement) > worker_number(last.housed)
    /\ worker_number(Settlement) = total_worker_slots(Settlement)
    /\ inactive_villagers(Settlement) # <<>>

\* the last call built a building: the last of the chronology
Built == (Added /\ last.ret) \/ last.op = "build"

\* the building just built is the first of its name in the chronology
FirstOfItsType ==
    \A i \in 1 .. Len(chronology) - 1 : chronology[i].name # chronology[Len(chronology)].name

\* C20: a building built that is not the first of its type and not an extension gets
\* road attempts to the earlier buildings in chronology order, from the first on, up
\* to the first success or the last earlier building; the first building of a type
\* and an extension get none; the new building is never a road target.
C20_RoadsToEarlierBuildings ==
    Built
        => LET n == Len(chronology)
           IN  /\ IF ~FirstOfItsType /\ ~properties(chronology[n]).is_extension
                  THEN \E tried \in 1 .. n - 1 : last.roads = [i \in 1 .. tried |-> i]
                  ELSE last.roads = <<>>
               /\ \A i \in 1 .. Len(last.roads) : last.roads[i] # n

\* the buildings of a chronology, without their rosters
NamesOf(chron) == [i \in 1 .. Len(chron) |-> chron[i].name]

\* C21: the chronology is append-only and in construction order: over every step of
\* add_building, build and update the buildings of the chronology before the step
\* are a prefix of those after it, and a successful add_building appends exactly the
\* building built, as its last element, and adds exactly one to the built count of
\* its name.
C21_ChronologyAppendOnly ==
    [][/\ Len(chronology') >= Len(chronology)
       /\ SubSeq(NamesOf(chronology'), 1, Len(chronology)) = NamesOf(chronology)
       /\ (last'.op = "add_building" /\ last'.ret)
            => /\ NamesOf(chronology') = Append(NamesOf(chronology), last'.name)
               /\ chronology'[Len(chronology')] = Building(last'.name)
               /\ counter' = [counter EXCEPT ![last'.name] = @ + 1]]_vars

\* a successful add_building in a settlement that has a building with inhabitants
C21_AddedToInhabitedSettlement ==
    /\ Added /\ last.ret
    /\ Len(chronology) >= 2
    /\ \E i \in 1 .. Len(chronology) : chronology[i].inhabitants # <<>>

\* the candidates the last search visited: keys_list[::speed]
Visited == Strided(foundation_blocks, last.speed)

VisitedScore(i) == _get_score(Visited[i], last.size)

\* the last search scored every candidate it visited
Scored ==
    /\ Searched
    /\ foundation_blocks # <<>>
    /\ \A i \in 1 .. Len(Visited) : ~VisitedScore(i).raised

\* the i-th visited candidate attains the minimum score
AttainsMinimum(i) == \A j \in 1 .. Len(Visited) : ~ScoreLess(VisitedScore(j), VisitedScore(i))

\* C22: a search that scored its candidates returns the first visited candidate, in
\* the iteration order of the pool, that attains the minimum score, also when
\* several attain it; a second run on the same pool, stride and footprint returns
\* the same coordinate.
C22_FirstMinimumWins ==
    Scored
        => /\ last.outcome = "return"
           /\ \E i \in 1 .. Len(Visited) :
                /\ Visited[i] = last.spot
                /\ AttainsMinimum(i)
                /\ \A j \in 1 .. i - 1 : ~AttainsMinimum(j)
           /\ BestSpot(_build_foundation_blocks(occupied_coords), last.size, last.speed).spot
                = last.spot

\* a search in which two visited candidates tie at a minimum below the sentinel
C22_TieAtMinimum ==
    /\ Scored
    /\ \E i, j \in 1 .. Len(Visited) :
            /\ i < j
            /\ AttainsMinimum(i) /\ AttainsMinimum(j)
            /\ ScoreLess(VisitedScore(i), WorstScore)

-----------------------------------------------------------------------------
(* Claims about Plot.remove_trees, checked under SpecTrees *)

\* the coordinates of the blocks on the worklist
Listed == {block.coordinates : block \in unwanted_blocks}

\* C23: remove_trees terminates on every snapshot: no coordinates are popped and
\* replaced by air more than once, no deleted coordinates are on the worklist, the
\* loop is left only with the worklist empty, and it is left in the end.
C23_RemoveTreesTerminates ==
    /\ [](\A c \in DOMAIN pops : pops[c] <= 1)
    /\ [](Listed \cap deleted_blocks = {})
    /\ [](phase = "done" => unwanted_blocks = {})
    /\ <>(phase = "done")

\* C23 witness: remove_trees has ended after it deleted a log that lies under dirt,
\* which only the neighbours of a popped block lead to.
C23_TreeFollowedBelowSurface ==
    /\ phase = "done"
    /\ \E c \in deleted_blocks :
          /\ Y(c) < MaxTreeY
          /\ world[shift(c, 0, 1, 0)] = "dirt"
          /\ pops[c] = 1

=============================================================================
